---------------------------- MODULE Spec2Model ----------------------------
(***************************************************************************)
(* Model of the shape detector of public/shapeDetector.js (detectShape and *)
(* its helpers) and of its two callers in public/index.js                  *)
(* (detectShapeWithCV, predict).                                           *)
(*                                                                         *)
(* Numbers.  A JavaScript number is modelled as a pair <<n, d>>:           *)
(*   d > 0   the rational n/d, kept in lowest terms;                       *)
(*   <<0,0>> NaN,  <<1,0>> +Infinity,  <<-1,0>> -Infinity.                 *)
(* Arithmetic on these pairs is exact.  The two operations of the code     *)
(* that leave the rationals are modelled to a stated resolution:           *)
(* Math.sqrt is rounded down to 1/SqrtScale, and the quotient taken by     *)
(* calculateCircularity (which multiplies by Math.PI) is rounded down to   *)
(* 1/CircScale.                                                            *)
(*                                                                         *)
(* Images.  A Uint8Array mask (binary, blurred, visited) is modelled as    *)
(* the set of points <<x, y>> whose byte is non-zero.                      *)
(***************************************************************************)
EXTENDS Integers, Sequences, FiniteSets, TLC

(***************************************************************************)
(* Program constants (CONFIG and literals of the code).                    *)
(***************************************************************************)
contourMinArea == 20
thresholdValue == 5
lumaRed == 299
lumaGreen == 587
lumaBlue == 114
lumaDen == 1000
alphaOpaque == 200
boostNum == 3
boostDen == 2
grayMax == 255
thresholdCircularityNum == 6
thresholdCircularityDen == 10
thresholdSolidityNum == 85
thresholdSolidityDen == 100
triangleCorners == 3
fallbackCorners == 4
triangleToleranceNum == 25
triangleToleranceDen == 100
PiNum == 355
PiDen == 113

(***************************************************************************)
(* Resolution of the two non-rational operations.                          *)
(***************************************************************************)
SqrtScale == 1000
CircScale == 1000
CircUnit == 100

(***************************************************************************)
(* JavaScript numbers.                                                     *)
(***************************************************************************)
Abs(i) == IF i < 0 THEN -i ELSE i

Sgn(i) == IF i < 0 THEN -1 ELSE IF i > 0 THEN 1 ELSE 0

RECURSIVE GCD(_, _)
GCD(a, b) == IF b = 0 THEN a ELSE GCD(b, a % b)

Norm(n, d) == IF n = 0 THEN <<0, 1>>
              ELSE LET g == GCD(Abs(n), d) IN <<n \div g, d \div g>>

NaN == <<0, 0>>
PosInf == <<1, 0>>
NegInf == <<-1, 0>>
NumOf(i) == <<i, 1>>

IsNaN(a) == a = NaN
IsFinite(a) == a[2] > 0
IsZero(a) == a[2] > 0 /\ a[1] = 0

\* a > b of JavaScript: false as soon as one side is NaN.
NumGt(a, b) ==
    IF IsNaN(a) \/ IsNaN(b) THEN FALSE
    ELSE IF ~IsFinite(a) THEN a = PosInf /\ b # PosInf
    ELSE IF ~IsFinite(b) THEN b = NegInf
    ELSE a[1] * b[2] > b[1] * a[2]

NumGe(a, b) == ~IsNaN(a) /\ ~IsNaN(b) /\ ~NumGt(b, a)

\* a - b of JavaScript.
NumSub(a, b) ==
    IF IsNaN(a) \/ IsNaN(b) THEN NaN
    ELSE IF ~IsFinite(a) THEN (IF a = b THEN NaN ELSE a)
    ELSE IF ~IsFinite(b) THEN <<-b[1], 0>>
    ELSE Norm(a[1] * b[2] - b[1] * a[2], a[2] * b[2])

\* a * b of JavaScript.
NumMul(a, b) ==
    IF IsNaN(a) \/ IsNaN(b) THEN NaN
    ELSE IF ~IsFinite(a) \/ ~IsFinite(b)
         THEN (IF a[1] = 0 \/ b[1] = 0 THEN NaN ELSE <<Sgn(a[1]) * Sgn(b[1]), 0>>)
    ELSE Norm(a[1] * b[1], a[2] * b[2])

\* a / b of JavaScript: x/0 is an infinity, 0/0 is NaN, nothing throws.
NumDiv(a, b) ==
    IF IsNaN(a) \/ IsNaN(b) THEN NaN
    ELSE IF ~IsFinite(a) THEN (IF ~IsFinite(b) THEN NaN
                               ELSE <<a[1] * (IF b[1] < 0 THEN -1 ELSE 1), 0>>)
    ELSE IF ~IsFinite(b) THEN <<0, 1>>
    ELSE IF b[1] = 0 THEN (IF a[1] = 0 THEN NaN ELSE <<Sgn(a[1]), 0>>)
    ELSE Norm(a[1] * b[2] * Sgn(b[1]), a[2] * Abs(b[1]))

\* Math.min(a, b).
MathMin(a, b) == IF IsNaN(a) \/ IsNaN(b) THEN NaN
                 ELSE IF NumGt(a, b) THEN b ELSE a

\* Math.abs(a).
MathAbs(a) == <<Abs(a[1]), a[2]>>

RECURSIVE SqrtSearch(_, _, _)
SqrtSearch(n, lo, hi) ==
    IF lo = hi THEN lo
    ELSE LET mid == (lo + hi + 1) \div 2
         IN  IF mid * mid <= n THEN SqrtSearch(n, mid, hi)
             ELSE SqrtSearch(n, lo, mid - 1)

\* Largest r with r * r <= n.
ISqrt(n) == SqrtSearch(n, 0, IF n < 46340 THEN n ELSE 46340)

\* Math.sqrt of a non-negative integer, rounded down to 1/SqrtScale.
MathSqrt(k) == Norm(ISqrt(k * SqrtScale * SqrtScale), SqrtScale)


(***************************************************************************)
(* Geometry helpers of shapeDetector.js.  A point is <<x, y>>; a contour   *)
(* is a sequence of points (index 1 of the model is index 0 of the code).  *)
(***************************************************************************)
\* Sum of term(i) for i in lo..hi (0 when the range is empty), by halving.
RECURSIVE SumRange(_, _, _)
SumRange(term(_), lo, hi) ==
    IF lo > hi THEN 0
    ELSE IF lo = hi THEN term(lo)
    ELSE LET mid == (lo + hi) \div 2
         IN  SumRange(term, lo, mid) + SumRange(term, mid + 1, hi)

\* A Shoelace sum that stops at the last point and leaves out the edge that
\* closes the contour.
ShoelaceSum_Open(contour) ==
    LET term(i) == contour[i][1] * contour[i + 1][2] - contour[i + 1][1] * contour[i][2]
    IN  SumRange(term, 1, Len(contour) - 1)

\* The signed Shoelace sum: the cyclic sum of x_i * y_j - x_j * y_i, j = i + 1.
ShoelaceSum(contour) ==
    LET term(i) == LET j == (i % Len(contour)) + 1
                   IN  contour[i][1] * contour[j][2] - contour[j][1] * contour[i][2]
    IN  SumRange(term, 1, Len(contour))

\* Math.abs(area / 2) of the signed Shoelace sum.
calculateContourArea(contour) == Norm(Abs(ShoelaceSum(contour)), 2)

\* The cyclic sum of the edge lengths, in units of 1/SqrtScale.
PerimeterSum(contour) ==
    LET term(i) == LET j  == (i % Len(contour)) + 1
                       dx == contour[j][1] - contour[i][1]
                       dy == contour[j][2] - contour[i][2]
                   IN  ISqrt((dx * dx + dy * dy) * SqrtScale * SqrtScale)
    IN  SumRange(term, 1, Len(contour))

\* Sum of the cyclic edge lengths, each Math.sqrt taken to 1/SqrtScale.
calculateContourPerimeter(contour) == Norm(PerimeterSum(contour), SqrtScale)

\* perimeter * perimeter in units of 1/CircUnit, rounded down.
PerimeterSquared(perimeter) ==
    LET q == perimeter[1] \div perimeter[2]
        r == perimeter[1] % perimeter[2]
    IN  q * q * CircUnit
        + (2 * q * r * CircUnit) \div perimeter[2]
        + (r * r * CircUnit) \div (perimeter[2] * perimeter[2])

\* (4 * Math.PI * area) / (perimeter * perimeter).  There is no guard: a zero
\* perimeter gives 0/0 = NaN or x/0 = Infinity.  A finite quotient is rounded
\* down to 1/CircScale.
calculateCircularity(area, perimeter) ==
    IF IsFinite(area) /\ IsFinite(perimeter) /\ perimeter[1] > 0 /\ area[1] >= 0
    THEN LET t  == (4 * PiNum * area[1] * CircUnit) \div (PiDen * area[2])
             y  == PerimeterSquared(perimeter)
         IN  IF y = 0 THEN (IF t = 0 THEN NaN ELSE PosInf)
             ELSE Norm((t * CircScale) \div y, CircScale)
    ELSE NumDiv(NumMul(NumMul(NumOf(4), <<PiNum, PiDen>>), area),
                NumMul(perimeter, perimeter))

SumCoord(contour, k) ==
    LET term(i) == contour[i][k] IN SumRange(term, 1, Len(contour))

\* Arithmetic mean of the coordinates; 0/0 = NaN for an empty contour.
calculateCentroid(contour) ==
    [x |-> NumDiv(NumOf(SumCoord(contour, 1)), NumOf(Len(contour))),
     y |-> NumDiv(NumOf(SumCoord(contour, 2)), NumOf(Len(contour)))]

\* Cross product (p2 - p1) x (p3 - p1).
Cross(p1, p2, p3) ==
    (p2[1] - p1[1]) * (p3[2] - p1[2]) - (p2[2] - p1[2]) * (p3[1] - p1[1])

\* The test with its sign turned: true for a clockwise turn.
isCounterClockwise_Clockwise(p1, p2, p3) == Cross(p1, p2, p3) < 0

isCounterClockwise(p1, p2, p3) == Cross(p1, p2, p3) > 0

\* Is p lower than q, or on the same row and left of it.
LowerLeft(p, q) == p[2] < q[2] \/ (p[2] = q[2] /\ p[1] < q[1])

\* The index the loop of lines 482-488 ends with: the first index that holds
\* the lowest point (leftmost if tied); index 1 for an empty array.
StartIndex(contour) ==
    IF Len(contour) = 0 THEN 1
    ELSE CHOOSE i \in 1..Len(contour) :
            /\ \A j \in 1..Len(contour) : ~LowerLeft(contour[j], contour[i])
            /\ \A j \in 1..(i - 1) : LowerLeft(contour[i], contour[j])

\* The contour array after line 491 swapped contour[0] and contour[start] in
\* place: calculateConvexHull works on its argument, not on a copy.
SwapStart(contour) ==
    LET start == StartIndex(contour)
    IN  [i \in 1..Len(contour) |->
            IF i = 1 THEN contour[start]
            ELSE IF i = start THEN contour[1]
            ELSE contour[i]]

\* Math.atan2(a.y - s.y, a.x - s.x) < Math.atan2(b.y - s.y, b.x - s.x) for
\* points that are not below s and not left of s on its row (angles in
\* [0, pi)); atan2(0, 0) is 0.
AngleLess(a, b, s) ==
    LET va == IF a = s THEN <<1, 0>> ELSE <<a[1] - s[1], a[2] - s[2]>>
        vb == IF b = s THEN <<1, 0>> ELSE <<b[1] - s[1], b[2] - s[2]>>
    IN  va[1] * vb[2] - va[2] * vb[1] > 0

\* A sort whose comparator orders nothing (it answers with a boolean): the
\* points stay in array order.
SortByAngle_Unsorted(points, s) == points

\* The stable sort of lines 495-499: point i goes after every point of a
\* smaller angle and after the earlier points of the same angle
\* (Array.prototype.sort is stable and the comparator is a total preorder).
SortByAngle(points, s) ==
    LET n       == Len(points)
        rank    == [i \in 1..n |->
                       1 + Cardinality({j \in 1..n : AngleLess(points[j], points[i], s)})
                         + Cardinality({j \in 1..(i - 1) :
                               /\ ~AngleLess(points[j], points[i], s)
                               /\ ~AngleLess(points[i], points[j], s)})]
    IN  SubSeq([k \in 1..n |-> points[CHOOSE i \in 1..n : rank[i] = k]], 1, n)

\* The while loop of the scan: pop while the last two hull points and p do not
\* make a strict counter-clockwise turn.
RECURSIVE PopWhile(_, _)
PopWhile(hull, p) ==
    IF Len(hull) > 1 /\ ~isCounterClockwise(hull[Len(hull) - 1], hull[Len(hull)], p)
    THEN PopWhile(SubSeq(hull, 1, Len(hull) - 1), p)
    ELSE hull

\* One iteration of the for loop of the scan, if there is one left.
ScanStep(g, sortedPoints) ==
    IF g.i > Len(sortedPoints) THEN g
    ELSE [hull |-> Append(PopWhile(g.hull, sortedPoints[g.i]), sortedPoints[g.i]),
          i    |-> g.i + 1]

\* 2^k iterations of the for loop (fewer if the points run out first).
RECURSIVE ScanSteps(_, _, _)
ScanSteps(g, sortedPoints, k) ==
    IF g.i > Len(sortedPoints) THEN g
    ELSE IF k = 0 THEN ScanStep(g, sortedPoints)
    ELSE ScanSteps(ScanSteps(g, sortedPoints, k - 1), sortedPoints, k - 1)

\* Smallest k with 2^k >= n.
RECURSIVE Log2(_)
Log2(n) == IF n <= 1 THEN 0 ELSE 1 + Log2((n + 1) \div 2)

\* The hull returned for a contour of at least 2 points (a shorter array makes
\* the code read sortedPoints[0] of an empty array).
calculateConvexHull(contour) ==
    LET swapped      == SwapStart(contour)
        startPoint   == swapped[1]
        sortedPoints == SortByAngle(SubSeq(swapped, 2, Len(swapped)), startPoint)
    IN  ScanSteps([hull |-> <<startPoint, sortedPoints[1]>>, i |-> 2],
                  sortedPoints, Log2(Len(sortedPoints))).hull

\* area / length of the code: |cross| over the length of the chord.
perpendicularDistance(point, lineStart, lineEnd) ==
    LET area   == Abs((lineEnd[2] - lineStart[2]) * point[1]
                      - (lineEnd[1] - lineStart[1]) * point[2]
                      + lineEnd[1] * lineStart[2] - lineEnd[2] * lineStart[1])
        dx     == lineEnd[1] - lineStart[1]
        dy     == lineEnd[2] - lineStart[2]
    IN  NumDiv(NumOf(area), MathSqrt(dy * dy + dx * dx))

\* A scan whose for loop starts one index late and so never looks at the
\* first inner point.
MaxDistScan_SkipFirst(contour) ==
    LET n       == Len(contour)
        dist    == [i \in 3..(n - 1) |->
                       perpendicularDistance(contour[i], contour[1], contour[n])]
        raised  == {i \in 3..(n - 1) : NumGt(dist[i], NumOf(0))}
    IN  IF raised = {} THEN <<NumOf(0), 1>>
        ELSE LET index == CHOOSE i \in raised :
                              /\ \A j \in raised : ~NumGt(dist[j], dist[i])
                              /\ \A j \in raised : j < i => NumGt(dist[i], dist[j])
             IN  <<dist[index], index>>

\* What the for loop of approxPolyDP leaves in <<maxDist, index>>: the largest
\* distance of an inner point and the first index that has it, or <<0, 0>>
\* (index 1 of the model) when no distance is greater than 0 (a NaN never is).
MaxDistScan(contour) ==
    LET n       == Len(contour)
        dist    == [i \in 2..(n - 1) |->
                       perpendicularDistance(contour[i], contour[1], contour[n])]
        raised  == {i \in 2..(n - 1) : NumGt(dist[i], NumOf(0))}
    IN  IF raised = {} THEN <<NumOf(0), 1>>
        ELSE LET index == CHOOSE i \in raised :
                              /\ \A j \in raised : ~NumGt(dist[j], dist[i])
                              /\ \A j \in raised : j < i => NumGt(dist[i], dist[j])
             IN  <<dist[index], index>>

\* A simplification that joins the two halves as they are, the shared split
\* point twice.
RECURSIVE approxPolyDP_KeepShared(_, _)
approxPolyDP_KeepShared(contour, epsilon) ==
    IF Len(contour) <= 2 THEN contour
    ELSE LET m       == MaxDistScan(contour)
             maxDist == m[1]
             index   == m[2]
         IN  IF NumGt(maxDist, epsilon)
             THEN approxPolyDP_KeepShared(SubSeq(contour, 1, index), epsilon)
                  \o approxPolyDP_KeepShared(SubSeq(contour, index, Len(contour)), epsilon)
             ELSE <<contour[1], contour[Len(contour)]>>

RECURSIVE approxPolyDP(_, _)
approxPolyDP(contour, epsilon) ==
    IF Len(contour) <= 2 THEN contour
    ELSE LET m       == MaxDistScan(contour)
             maxDist == m[1]
             index   == m[2]
         IN  IF NumGt(maxDist, epsilon)
             THEN LET firstHalf  == approxPolyDP(SubSeq(contour, 1, index), epsilon)
                      secondHalf == approxPolyDP(SubSeq(contour, index, Len(contour)), epsilon)
                  IN  SubSeq(firstHalf, 1, Len(firstHalf) - 1) \o secondHalf
             ELSE <<contour[1], contour[Len(contour)]>>

\* The number of approxPolyDP frames on the call stack at the deepest point
\* of approxPolyDP(contour, epsilon): the call itself, and under it the
\* deeper of its two recursive calls (lines 558-559), which run one after
\* the other.
RECURSIVE approxPolyDPDepth(_, _)
approxPolyDPDepth(contour, epsilon) ==
    IF Len(contour) <= 2 THEN 1
    ELSE LET m       == MaxDistScan(contour)
             maxDist == m[1]
             index   == m[2]
         IN  IF NumGt(maxDist, epsilon)
             THEN LET firstHalf  == approxPolyDPDepth(SubSeq(contour, 1, index), epsilon)
                      secondHalf == approxPolyDPDepth(SubSeq(contour, index, Len(contour)),
                                                      epsilon)
                  IN  1 + (IF firstHalf > secondHalf THEN firstHalf ELSE secondHalf)
             ELSE 1

(***************************************************************************)
(* The grayscale conversion and the threshold of detectShape, lines 45-64. *)
(* A pixel is <<r, g, b, a>>, four bytes.                                  *)
(* The luminance is the exact rational; the colours of the check are such  *)
(* that the double the code computes has the same integer part.            *)
(***************************************************************************)
\* What a Uint8Array element holds after a finite number >= 0 is stored in
\* it: the integer part, modulo 256.
ToUint8(x) == (x[1] \div x[2]) % 256

\* (0.299 * r + 0.587 * g + 0.114 * b) * boost, lines 55-56.
Luminance(px) ==
    LET boost == IF px[4] > alphaOpaque THEN Norm(boostNum, boostDen) ELSE NumOf(1)
    IN  NumMul(Norm(lumaRed * px[1] + lumaGreen * px[2] + lumaBlue * px[3], lumaDen),
               boost)

\* gray[i / 4] = Math.min(255, luminance), line 57: gray is a Uint8Array.
\* The value is given as a number, as the threshold test reads it.
Gray(px) == NumOf(ToUint8(MathMin(NumOf(grayMax), Luminance(px))))

\* binary[i] = gray[i] > threshold ? 255 : 0, lines 61-64.
Binarize(pixels) ==
    {p \in DOMAIN pixels : NumGt(Gray(pixels[p]), NumOf(thresholdValue))}

(***************************************************************************)
(* findContours and traceContour.                                          *)
(***************************************************************************)
InBounds(p, width, height) ==
    p[1] >= 0 /\ p[2] >= 0 /\ p[1] < width /\ p[2] < height

Interior(width, height) ==
    {p \in (1..(width - 2)) \X (1..(height - 2)) : TRUE}

\* Sum of the 3x3 neighbourhood of the enhanced mask (bytes 0 or 255).
BoxSum(binary, p) ==
    255 * Cardinality({q \in ((p[1] - 1)..(p[1] + 1)) \X ((p[2] - 1)..(p[2] + 1)) :
                          q \in binary})

\* The blur with the threshold it had before (255 * 5).
Blur_FiveCells(binary, width, height) ==
    {p \in Interior(width, height) : BoxSum(binary, p) > 255 * 5}

\* The blurred mask: interior pixels whose box sum exceeds 255 * 1; the
\* border is never written and stays 0.
Blur(binary, width, height) ==
    {p \in Interior(width, height) : BoxSum(binary, p) > 255 * 1}

\* The eight neighbours taken column by column instead of row by row.
directions_ColumnFirst ==
    << <<-1, -1>>, <<-1, 0>>, <<-1, 1>>,
       <<0, -1>>, <<0, 1>>,
       <<1, -1>>, <<1, 0>>, <<1, 1>> >>

directions ==
    << <<-1, -1>>, <<0, -1>>, <<1, -1>>,
       <<-1, 0>>, <<1, 0>>,
       <<-1, 1>>, <<0, 1>>, <<1, 1>> >>

\* The offsets <<dx, dy>> of the radius-r search, in the order of its loops
\* (dy outer, dx inner, both from -r to r).
RingOffsets(r) ==
    [k \in 1..((2 * r + 1) * (2 * r + 1)) |->
        <<((k - 1) % (2 * r + 1)) - r, ((k - 1) \div (2 * r + 1)) - r>>]

\* Can the trace move to pixel n: in bounds, 255 in the mask, not visited.
Free(n, mask, visited, width, height) ==
    InBounds(n, width, height) /\ n \in mask /\ n \notin visited

\* First offset of the sequence that leads from p to a free pixel; 0 when
\* there is none.
FirstFree(offsets, p, mask, visited, width, height) ==
    LET free == {i \in 1..Len(offsets) :
                    /\ offsets[i] # <<0, 0>>
                    /\ Free(<<p[1] + offsets[i][1], p[2] + offsets[i][2]>>,
                            mask, visited, width, height)}
    IN  IF free = {} THEN 0 ELSE CHOOSE i \in free : \A j \in free : i <= j

Moved(p, offsets, i) == <<p[1] + offsets[i][1], p[2] + offsets[i][2]>>

\* The pixel the radius 2 then radius 3 search jumps to from p, or <<>>.
JumpTarget(p, mask, visited, width, height) ==
    LET i2 == FirstFree(RingOffsets(2), p, mask, visited, width, height)
        i3 == FirstFree(RingOffsets(3), p, mask, visited, width, height)
    IN  IF i2 # 0 THEN Moved(p, RingOffsets(2), i2)
        ELSE IF i3 # 0 THEN Moved(p, RingOffsets(3), i3)
        ELSE <<>>

\* A trace that does not mark its start pixel.
TraceStart_Unmarked(visited, startX, startY) ==
    [contour |-> << <<startX, startY>> >>,
     stack   |-> << <<startX, startY>> >>,
     visited |-> visited]

\* The state of a trace: the contour so far, the stack and the visited map.
TraceStart(visited, startX, startY) ==
    [contour |-> << <<startX, startY>> >>,
     stack   |-> << <<startX, startY>> >>,
     visited |-> visited \cup {<<startX, startY>>}]

\* An iteration that forgets to mark the pixel it moves to.
TraceStep_Unmarked(t, mask, width, height) ==
    IF Len(t.stack) = 0 THEN t
    ELSE
    LET p      == t.stack[Len(t.stack)]
        popped == SubSeq(t.stack, 1, Len(t.stack) - 1)
        d      == FirstFree(directions, p, mask, t.visited, width, height)
    IN  IF d # 0
        THEN LET n == Moved(p, directions, d)
             IN  [contour |-> Append(t.contour, n),
                  stack   |-> Append(popped, n),
                  visited |-> t.visited]
        ELSE [t EXCEPT !.stack = popped]

\* One iteration of the while loop of traceContour, if the stack is not empty.
TraceStep(t, mask, width, height) ==
    IF Len(t.stack) = 0 THEN t
    ELSE
    LET p      == t.stack[Len(t.stack)]
        popped == SubSeq(t.stack, 1, Len(t.stack) - 1)
        d      == FirstFree(directions, p, mask, t.visited, width, height)
    IN  IF d # 0
        THEN LET n == Moved(p, directions, d)
             IN  [contour |-> Append(t.contour, n),
                  stack   |-> Append(popped, n),
                  visited |-> t.visited \cup {n}]
        ELSE IF Len(popped) = 0 /\ Len(t.contour) > 1
        THEN LET n == JumpTarget(p, mask, t.visited, width, height)
             IN  IF n # <<>>
                 THEN [contour |-> Append(t.contour, n),
                       stack   |-> Append(popped, n),
                       visited |-> t.visited \cup {n}]
                 ELSE [t EXCEPT !.stack = popped]
        ELSE [t EXCEPT !.stack = popped]

\* 2^k iterations of the while loop (fewer if the stack empties first).
RECURSIVE TraceSteps(_, _, _, _, _)
TraceSteps(t, mask, width, height, k) ==
    IF Len(t.stack) = 0 THEN t
    ELSE IF k = 0 THEN TraceStep(t, mask, width, height)
    ELSE TraceSteps(TraceSteps(t, mask, width, height, k - 1), mask, width, height, k - 1)

\* The while loop run until the stack is empty: every iteration but the last
\* marks a pixel, so width * height + 1 iterations are enough.
TraceLoop(t, mask, width, height) ==
    TraceSteps(t, mask, width, height, Log2(width * height + 1))

\* traceContour: the contour and the visited map it leaves behind.
traceContour(mask, visited, width, height, startX, startY) ==
    TraceLoop(TraceStart(visited, startX, startY), mask, width, height)

\* Start pixels chosen without a look at the visited map.
StartCandidates_Revisit(blurred, width, height, k, visited) ==
    {p \in blurred :
        /\ p[1] >= 1 /\ p[1] < width - 1 /\ p[2] >= 1 /\ p[2] < height - 1
        /\ p[2] * width + p[1] >= k}

\* The pixels at which the scan of findContours, arrived at index k, can still
\* start a trace: interior, 255 in the blurred mask, not visited.
StartCandidates(blurred, width, height, k, visited) ==
    {p \in blurred \ visited :
        /\ p[1] >= 1 /\ p[1] < width - 1 /\ p[2] >= 1 /\ p[2] < height - 1
        /\ p[2] * width + p[1] >= k}

\* A scan that runs backwards: the last of them in row-major order.
FirstInScan_Backwards(ps, width) ==
    CHOOSE p \in ps : \A q \in ps : p[2] * width + p[1] >= q[2] * width + q[1]

\* The first of them in row-major order.
FirstInScan(ps, width) ==
    CHOOSE p \in ps : \A q \in ps : p[2] * width + p[1] <= q[2] * width + q[1]

\* The row-major scan of findContours from pixel index k on; the pixels
\* between two starts are skipped in one step.
RECURSIVE ScanFrom(_, _, _, _, _, _)
ScanFrom(blurred, width, height, k, visited, contours) ==
    LET ps == StartCandidates(blurred, width, height, k, visited)
    IN  IF ps = {} THEN contours
        ELSE LET s == FirstInScan(ps, width)
                 t == traceContour(blurred, visited, width, height, s[1], s[2])
             IN  ScanFrom(blurred, width, height, s[2] * width + s[1] + 1, t.visited,
                          IF Len(t.contour) > 2
                          THEN Append(contours, t.contour) ELSE contours)

findContours(binary, width, height) ==
    ScanFrom(Blur(binary, width, height), width, height, 0, {}, <<>>)

(***************************************************************************)
(* detectShape after tracing: selection, features, decision.               *)
(***************************************************************************)
\* A filter that forgot the minimum: it keeps every contour of non-zero area.
IsValidContour_NoMinimum(contour) == NumGt(calculateContourArea(contour), NumOf(0))

IsValidContour(contour) == NumGt(calculateContourArea(contour), NumOf(contourMinArea))

\* contours.filter(contour => calculateContourArea(contour) > CONFIG.contourMinArea)
FilterContours(cs) == SelectSeq(cs, IsValidContour)

\* A reduce that lets a later contour of the same area win.
RECURSIVE ReduceLargest_LastOfTies(_, _, _)
ReduceLargest_LastOfTies(valid, prev, i) ==
    IF i > Len(valid) THEN prev
    ELSE IF NumGe(calculateContourArea(valid[i]), calculateContourArea(prev))
         THEN ReduceLargest_LastOfTies(valid, valid[i], i + 1)
         ELSE ReduceLargest_LastOfTies(valid, prev, i + 1)

\* validContours.reduce((prev, current) => area(current) > area(prev) ? current : prev)
RECURSIVE ReduceLargest(_, _, _)
ReduceLargest(valid, prev, i) ==
    IF i > Len(valid) THEN prev
    ELSE IF NumGt(calculateContourArea(valid[i]), calculateContourArea(prev))
         THEN ReduceLargest(valid, valid[i], i + 1)
         ELSE ReduceLargest(valid, prev, i + 1)

LargestContour(valid) == ReduceLargest(valid, valid[1], 2)

\* An early return that carries the confidence of a fallback guess.
NoContourResult_Guess ==
    [shape |-> "unknown", confidence |-> Norm(1, 2), hasMetrics |-> FALSE,
     message |-> "No valid contours found"]

\* The object returned when no contour passes the area filter.
NoContourResult ==
    [shape |-> "unknown", confidence |-> NumOf(0), hasMetrics |-> FALSE,
     message |-> "No valid contours found"]

Solidity(a, hullArea) == NumDiv(a, hullArea)

thresholdCircularity == <<thresholdCircularityNum, thresholdCircularityDen>>
thresholdSolidity == Norm(thresholdSolidityNum, thresholdSolidityDen)
triangleTolerance == Norm(triangleToleranceNum, triangleToleranceDen)
fallbackConfidence == Norm(5, 10)

CircleTest(c) == NumGt(c, thresholdCircularity)

\* The circle confidence without its Math.min.
CircleConfidence_Unclamped(c) ==
    NumDiv(NumSub(c, thresholdCircularity), NumSub(NumOf(1), thresholdCircularity))

\* Math.min(1, (circularity - CONFIG.circularity) / (1 - CONFIG.circularity))
CircleConfidence(c) ==
    MathMin(NumOf(1), NumDiv(NumSub(c, thresholdCircularity),
                             NumSub(NumOf(1), thresholdCircularity)))

\* A triangle test with >= in place of >.
TriangleTest_AtLeast(corners, s) ==
    corners = triangleCorners /\ NumGe(s, thresholdSolidity)

TriangleTest(corners, s) == corners = triangleCorners /\ NumGt(s, thresholdSolidity)

\* Math.min(1, solidity)
TriangleConfidence(s) == MathMin(NumOf(1), s)

\* A fallback that reads numCorners < 4.
FallbackShape_Under(corners) == IF corners < fallbackCorners THEN "triangle" ELSE "circle"

\* The fallback guess when neither hypothesis holds.
FallbackShape(corners) == IF corners <= fallbackCorners THEN "triangle" ELSE "circle"

\* A decision that reports the winner's own confidence when both hypotheses
\* hold, in place of the margin.
Decide_WinnerConfidence(c, s, corners) ==
    LET isC == CircleTest(c)
        isT == TriangleTest(corners, s)
        cc  == IF isC THEN CircleConfidence(c) ELSE NumOf(0)
        tc  == IF isT THEN TriangleConfidence(s) ELSE NumOf(0)
    IN  [isCircle |-> isC, isTriangle |-> isT,
         circleConfidence |-> cc, triangleConfidence |-> tc,
         shape |-> IF isC /\ ~isT THEN "circle"
                   ELSE IF isT /\ ~isC THEN "triangle"
                   ELSE IF isC /\ isT
                        THEN (IF NumGt(cc, tc) THEN "circle" ELSE "triangle")
                   ELSE IF corners <= fallbackCorners THEN "triangle" ELSE "circle",
         confidence |-> IF isC /\ ~isT THEN cc
                        ELSE IF isT /\ ~isC THEN tc
                        ELSE IF isC /\ isT
                             THEN (IF NumGt(cc, tc) THEN cc ELSE tc)
                        ELSE Norm(5, 10)]

\* A decision that gives a tie of the two confidences to the circle.
Decide_CircleOnTie(c, s, corners) ==
    LET isC == CircleTest(c)
        isT == TriangleTest(corners, s)
        cc  == IF isC THEN CircleConfidence(c) ELSE NumOf(0)
        tc  == IF isT THEN TriangleConfidence(s) ELSE NumOf(0)
    IN  [isCircle |-> isC, isTriangle |-> isT,
         circleConfidence |-> cc, triangleConfidence |-> tc,
         shape |-> IF isC /\ ~isT THEN "circle"
                   ELSE IF isT /\ ~isC THEN "triangle"
                   ELSE IF isC /\ isT
                        THEN (IF NumGe(cc, tc) THEN "circle" ELSE "triangle")
                   ELSE FallbackShape(corners),
         confidence |-> IF isC /\ ~isT THEN cc
                        ELSE IF isT /\ ~isC THEN tc
                        ELSE IF isC /\ isT
                             THEN (IF NumGe(cc, tc) THEN NumSub(cc, tc) ELSE NumSub(tc, cc))
                        ELSE fallbackConfidence]

\* Lines 150-240: the two hypotheses and the decision.
Decide(c, s, corners) ==
    LET isC == CircleTest(c)
        isT == TriangleTest(corners, s)
        cc  == IF isC THEN CircleConfidence(c) ELSE NumOf(0)
        tc  == IF isT THEN TriangleConfidence(s) ELSE NumOf(0)
    IN  [isCircle |-> isC, isTriangle |-> isT,
         circleConfidence |-> cc, triangleConfidence |-> tc,
         shape |-> IF isC /\ ~isT THEN "circle"
                   ELSE IF isT /\ ~isC THEN "triangle"
                   ELSE IF isC /\ isT
                        THEN (IF NumGt(cc, tc) THEN "circle" ELSE "triangle")
                   ELSE FallbackShape(corners),
         confidence |-> IF isC /\ ~isT THEN cc
                        ELSE IF isT /\ ~isC THEN tc
                        ELSE IF isC /\ isT
                             THEN (IF NumGt(cc, tc) THEN NumSub(cc, tc) ELSE NumSub(tc, cc))
                        ELSE fallbackConfidence]

\* The object returned at the end of detectShape.
ShapeResult(d) ==
    [shape |-> d.shape, confidence |-> d.confidence, hasMetrics |-> TRUE,
     message |-> "Detected " \o d.shape]

\* A catch block that answers with a guess.
CaughtResult_Guess ==
    [shape |-> "triangle", confidence |-> Norm(1, 2), hasMetrics |-> FALSE,
     message |-> "undefined"]

\* What detectShapeWithCV returns from its catch block.
CaughtResult ==
    [shape |-> "unknown", confidence |-> NumOf(0), hasMetrics |-> FALSE,
     message |-> "undefined"]

(***************************************************************************)
(* predict of index.js.                                                    *)
(***************************************************************************)
\* What predict returns when the model's prediction succeeded.
ModelPrediction(m) ==
    [shape |-> m.shape, confidence |-> m.confidence, source |-> "model",
     message |-> "Model detected " \o m.shape]

\* What predict returns on the fallback path, from detectShapeWithCV's result.
FallbackPrediction(cv) ==
    IF cv.shape # "unknown"
    THEN [shape |-> cv.shape, confidence |-> cv.confidence, source |-> "cv",
          message |-> "CV detected " \o cv.shape]
    ELSE [shape |-> "unknown", confidence |-> NumOf(0), source |-> "undefined",
          message |-> "Could not detect a shape"]

(***************************************************************************)
(* Bounds of the model.                                                    *)
(***************************************************************************)
CanvasSize == 12
MinExtent == 7
GridW == 2
GridH == 1
MaxContourLen == 4
MaxCorners == 6

(***************************************************************************)
(* State.  A variable a run has not yet assigned holds Undefined (numbers, *)
(* sequences) or NoResult (returned objects).                              *)
(***************************************************************************)
VARIABLES
    pc,                  \* position in predict / detectShapeWithCV / detectShape
    model,               \* "none" or "loaded": the module variable of index.js
    modelResult,         \* outcome of model.predict: none yet, threw, or an output
    width, height,       \* canvas size
    data,                \* imageData.data: the RGBA bytes of each canvas pixel
    binary,              \* the thresholded mask of detectShape
    contours,            \* findContours(binary, width, height)
    validContours,
    walk,                \* the contour, stack and visited map of a running traceContour
    mainContour,
    area, perimeter, circularity,
    convexHull, convexArea, solidity,
    centroid,
    epsilon,             \* the tolerance handed to approxPolyDP
    approximatedPolygon, numCorners,
    isCircle, isTriangle, circleConfidence, triangleConfidence,
    result,              \* what detectShape returned
    cvResult,            \* what detectShapeWithCV returned
    prediction           \* what predict resolved to

input == <<model, width, height, data, binary>>
traced == <<contours, validContours, walk>>
features == <<area, perimeter, circularity, convexHull, convexArea, solidity,
              centroid, epsilon, approximatedPolygon, numCorners>>
hypotheses == <<isCircle, isTriangle, circleConfidence, triangleConfidence>>
returned == <<result, cvResult, prediction>>
vars == <<pc, modelResult, input, traced, mainContour, features, hypotheses, returned>>

Undefined == <<>>
NoResult == [shape |-> "none", confidence |-> Undefined, hasMetrics |-> FALSE,
             message |-> "none"]
\* The pixel buffer of a run that starts at the thresholded mask.
NoData == <<>>
NoModelResult == [status |-> "none", shape |-> "none", confidence |-> Undefined]
\* No traceContour is running.
NoWalk == [contour |-> <<>>, stack |-> <<>>, visited |-> {}]
NoPrediction == [shape |-> "none", confidence |-> Undefined, source |-> "none",
                 message |-> "none"]

\* The locals of detectShape's decision and the three returned objects, before
\* they are assigned.
NothingDecided ==
    /\ modelResult = NoModelResult
    /\ isCircle = FALSE /\ isTriangle = FALSE
    /\ circleConfidence = NumOf(0) /\ triangleConfidence = NumOf(0)
    /\ result = NoResult /\ cvResult = NoResult /\ prediction = NoPrediction

\* The features of lines 134-148, before they are assigned.
NothingMeasured ==
    /\ area = Undefined /\ perimeter = Undefined /\ circularity = Undefined
    /\ convexHull = Undefined /\ convexArea = Undefined /\ solidity = Undefined
    /\ centroid = Undefined /\ epsilon = Undefined
    /\ approximatedPolygon = Undefined /\ numCorners = 0

(***************************************************************************)
(* The drawings of the bounded check: rectangles, outlined or filled, and  *)
(* short strokes, on a CanvasSize x CanvasSize canvas.                     *)
(***************************************************************************)
RectOutline(x0, y0, x1, y1) ==
    {p \in (x0..x1) \X (y0..y1) : p[1] \in {x0, x1} \/ p[2] \in {y0, y1}}

RectFilled(x0, y0, x1, y1) == (x0..x1) \X (y0..y1)

Drawings ==
    {{}}
    \cup {RectOutline(x0, y0, x1, y1) :
            x0 \in 0..1, y0 \in 0..1,
            x1 \in (CanvasSize - 2)..(CanvasSize - 1), y1 \in MinExtent..(CanvasSize - 1)}
    \cup {RectFilled(x0, x0, x1, y1) :
            x0 \in 0..1, x1 \in 2..3, y1 \in {MinExtent}}
    \cup {RectFilled(x0, y0, x0 + 1, y0) : x0 \in 1..2, y0 \in 1..2}
    \cup {{<<x0, y0>>} : x0 \in 1..2, y0 \in 1..2}

\* The outputs a loaded model is taken to give in the check.
ModelOutputs ==
    {[status |-> "ok", shape |-> "circle", confidence |-> Norm(9, 10)],
     [status |-> "ok", shape |-> "triangle", confidence |-> Norm(3, 5)]}

\* model.predict threw (or fromPixels, or data()).
ModelThrows == [status |-> "throws", shape |-> "none", confidence |-> Undefined]

(***************************************************************************)
(* Spec: one call of predict on a drawing.                                 *)
(***************************************************************************)
Init ==
    /\ pc = "predict"
    /\ model \in {"none", "loaded"}
    /\ width = CanvasSize /\ height = CanvasSize
    /\ data = NoData
    /\ binary \in Drawings
    /\ contours = Undefined /\ validContours = Undefined /\ walk = NoWalk
    /\ mainContour = Undefined
    /\ NothingMeasured
    /\ NothingDecided

\* predict, priority 1: the model's prediction succeeds or throws; predict
\* then calls detectShapeWithCV in both cases.
ModelPredict ==
    /\ pc = "predict" /\ model = "loaded"
    /\ \E out \in ModelOutputs \cup {ModelThrows} : modelResult' = out
    /\ pc' = "cv"
    /\ UNCHANGED <<input, traced, mainContour, features, hypotheses, returned>>

\* predict without a model: straight to the fallback.
NoModel ==
    /\ pc = "predict" /\ model = "none"
    /\ pc' = "cv"
    /\ UNCHANGED <<modelResult, input, traced, mainContour, features, hypotheses, returned>>

\* detectShape fails before tracing (getContext or getImageData throws).
CanvasThrows ==
    /\ pc = "cv"
    /\ pc' = "threw"
    /\ UNCHANGED <<modelResult, input, traced, mainContour, features, hypotheses, returned>>

\* detectShape, line 67.
FindContours ==
    /\ pc = "cv"
    /\ contours' = findContours(binary, width, height)
    /\ pc' = "traced"
    /\ UNCHANGED <<modelResult, input, validContours, walk, mainContour, features,
                   hypotheses, returned>>

\* detectShape, lines 97-115: the area filter, the early return, the choice
\* of the main contour.
SelectContour ==
    /\ pc = "traced"
    /\ LET valid == FilterContours(contours)
       IN  /\ validContours' = valid
           /\ IF Len(valid) = 0
              THEN /\ result' = NoContourResult
                   /\ pc' = "returned"
                   /\ UNCHANGED mainContour
              ELSE /\ mainContour' = LargestContour(valid)
                   /\ pc' = "selected"
                   /\ UNCHANGED result
    /\ UNCHANGED <<modelResult, input, contours, walk, features, hypotheses,
                   cvResult, prediction>>

\* detectShape, lines 134-148.  calculateConvexHull swaps inside the array it
\* is given, so the centroid and the polygon are computed from the swapped
\* array.  A contour shorter than 2 makes calculateContourArea(convexHull)
\* read a coordinate of undefined, which throws.
MeasureContour ==
    /\ pc = "selected"
    /\ area' = calculateContourArea(mainContour)
    /\ perimeter' = calculateContourPerimeter(mainContour)
    /\ circularity' = calculateCircularity(area', perimeter')
    /\ IF Len(mainContour) < 2
       THEN /\ pc' = "threw"
            /\ UNCHANGED <<mainContour, convexHull, convexArea, solidity, centroid,
                           epsilon, approximatedPolygon, numCorners>>
       ELSE /\ convexHull' = calculateConvexHull(mainContour)
            /\ mainContour' = SwapStart(mainContour)
            /\ convexArea' = calculateContourArea(convexHull')
            /\ solidity' = Solidity(area', convexArea')
            /\ centroid' = calculateCentroid(mainContour')
            /\ epsilon' = NumMul(triangleTolerance, perimeter')
            /\ approximatedPolygon' = approxPolyDP(mainContour', epsilon')
            /\ numCorners' = Len(approximatedPolygon')
            /\ pc' = "measured"
    /\ UNCHANGED <<modelResult, input, traced, hypotheses, returned>>

\* detectShape, lines 150-268.
ClassifyFeatures ==
    /\ pc = "measured"
    /\ LET d == Decide(circularity, solidity, numCorners)
       IN  /\ isCircle' = d.isCircle
           /\ isTriangle' = d.isTriangle
           /\ circleConfidence' = d.circleConfidence
           /\ triangleConfidence' = d.triangleConfidence
           /\ result' = ShapeResult(d)
    /\ pc' = "returned"
    /\ UNCHANGED <<modelResult, input, traced, mainContour, features, cvResult, prediction>>

\* detectShapeWithCV returns detectShape's result.
CVReturn ==
    /\ pc = "returned"
    /\ cvResult' = result
    /\ pc' = "cvdone"
    /\ UNCHANGED <<modelResult, input, traced, mainContour, features, hypotheses,
                   result, prediction>>

\* detectShapeWithCV's catch block.
CVCatch ==
    /\ pc = "threw"
    /\ cvResult' = CaughtResult
    /\ pc' = "cvdone"
    /\ UNCHANGED <<modelResult, input, traced, mainContour, features, hypotheses,
                   result, prediction>>

\* predict's return: the model's output if its prediction succeeded, the
\* fallback otherwise.
PredictReturn ==
    /\ pc = "cvdone"
    /\ prediction' = IF modelResult.status = "ok"
                     THEN ModelPrediction(modelResult)
                     ELSE FallbackPrediction(cvResult)
    /\ pc' = "done"
    /\ UNCHANGED <<modelResult, input, traced, mainContour, features, hypotheses,
                   result, cvResult>>

Next ==
    \/ ModelPredict
    \/ NoModel
    \/ CanvasThrows
    \/ FindContours
    \/ SelectContour
    \/ MeasureContour
    \/ ClassifyFeatures
    \/ CVReturn
    \/ CVCatch
    \/ PredictReturn

Spec == Init /\ [][Next]_vars

(***************************************************************************)
(* SpecGeom: lines 134-268 of detectShape applied to any contour of        *)
(* distinct points of a small grid, in place of a filtered one (the        *)
(* geometry helpers as functions of their argument).  validContours holds  *)
(* the contour as it was handed over.                                      *)
(***************************************************************************)
GridPoints == (0..GridW) \X (0..GridH)

GridContours ==
    UNION {{c \in [1..n -> GridPoints] : \A i, j \in 1..n : i # j => c[i] # c[j]} :
              n \in 1..MaxContourLen}

InitGeom ==
    /\ pc = "selected"
    /\ model = "none"
    /\ width = GridW + 1 /\ height = GridH + 1
    /\ data = NoData
    /\ binary = {}
    /\ mainContour \in GridContours
    /\ contours = <<mainContour>> /\ validContours = <<mainContour>> /\ walk = NoWalk
    /\ NothingMeasured
    /\ NothingDecided

NextGeom ==
    \/ MeasureContour
    \/ ClassifyFeatures

SpecGeom == InitGeom /\ [][NextGeom]_vars

(***************************************************************************)
(* SpecClassify: lines 140 and 150-268 of detectShape as a function of the *)
(* features of a main contour: any circularity, any hull area, any corner  *)
(* count, and an area that passed the filter.                              *)
(***************************************************************************)
Circularities ==
    {NaN, NumOf(0), Norm(1, 2), Norm(3, 5), Norm(61, 100), Norm(7, 10),
     Norm(19, 20), NumOf(1), Norm(6, 5), PosInf}

MainAreas == {NumOf(21), Norm(51, 2), NumOf(27), NumOf(30)}

HullAreas == {NumOf(0), NumOf(20), NumOf(30), NumOf(40)}

InitClassify ==
    /\ pc = "hulled"
    /\ model = "none"
    /\ width = 0 /\ height = 0
    /\ data = NoData
    /\ binary = {}
    /\ contours = Undefined /\ validContours = Undefined /\ walk = NoWalk
    /\ mainContour = Undefined
    /\ area \in MainAreas
    /\ convexArea \in HullAreas
    /\ circularity \in Circularities
    /\ numCorners \in 2..MaxCorners
    /\ perimeter = Undefined /\ convexHull = Undefined /\ solidity = Undefined
    /\ centroid = Undefined /\ epsilon = Undefined /\ approximatedPolygon = Undefined
    /\ NothingDecided

\* detectShape, line 140.
DeriveSolidity ==
    /\ pc = "hulled"
    /\ solidity' = Solidity(area, convexArea)
    /\ pc' = "measured"
    /\ UNCHANGED <<modelResult, input, traced, mainContour, area, perimeter, circularity,
                   convexHull, convexArea, centroid, epsilon, approximatedPolygon,
                   numCorners,
                   hypotheses, returned>>

NextClassify ==
    \/ DeriveSolidity
    \/ ClassifyFeatures

SpecClassify == InitClassify /\ [][NextClassify]_vars

(***************************************************************************)
(* SpecApprox: approxPolyDP as a function of its arguments, applied to a   *)
(* grid contour and a tolerance, and then once more to its own result.     *)
(***************************************************************************)
Epsilons == {NumOf(0), Norm(1, 2), NumOf(1)}

InitApprox ==
    /\ pc = "simplify"
    /\ model = "none"
    /\ width = GridW + 1 /\ height = GridH + 1
    /\ data = NoData
    /\ binary = {}
    /\ contours = Undefined /\ validContours = Undefined /\ walk = NoWalk
    /\ mainContour \in GridContours
    /\ epsilon \in Epsilons
    /\ area = Undefined /\ perimeter = Undefined /\ circularity = Undefined
    /\ convexHull = Undefined /\ convexArea = Undefined /\ solidity = Undefined
    /\ centroid = Undefined
    /\ approximatedPolygon = Undefined /\ numCorners = 0
    /\ NothingDecided

\* approxPolyDP(mainContour, epsilon), as at line 147.
Simplify ==
    /\ pc = "simplify"
    /\ approximatedPolygon' = approxPolyDP(mainContour, epsilon)
    /\ numCorners' = Len(approximatedPolygon')
    /\ pc' = "simplified"
    /\ UNCHANGED <<modelResult, input, traced, mainContour, area, perimeter, circularity,
                   convexHull, convexArea, solidity, centroid, epsilon, hypotheses,
                   returned>>

\* approxPolyDP applied to the polygon it returned, with the same tolerance.
SimplifyAgain ==
    /\ pc = "simplified"
    /\ approximatedPolygon' = approxPolyDP(approximatedPolygon, epsilon)
    /\ numCorners' = Len(approximatedPolygon')
    /\ pc' = "resimplified"
    /\ UNCHANGED <<modelResult, input, traced, mainContour, area, perimeter, circularity,
                   convexHull, convexArea, solidity, centroid, epsilon, hypotheses,
                   returned>>

NextApprox ==
    \/ Simplify
    \/ SimplifyAgain

SpecApprox == InitApprox /\ [][NextApprox]_vars

(***************************************************************************)
(* SpecCyclic: calculateContourArea and calculateContourPerimeter as       *)
(* functions of their argument, applied to a grid contour and then to the  *)
(* same cyclic contour listed from another starting point.                 *)
(***************************************************************************)
\* The contour listed from its point k + 1 on, cyclically.
Rotated(contour, k) ==
    [i \in 1..Len(contour) |-> contour[((i + k - 1) % Len(contour)) + 1]]

\* detectShape, lines 135-136.
MeasureSize ==
    /\ pc = "selected"
    /\ area' = calculateContourArea(mainContour)
    /\ perimeter' = calculateContourPerimeter(mainContour)
    /\ pc' = "sized"
    /\ UNCHANGED <<modelResult, input, traced, mainContour, circularity, convexHull,
                   convexArea, solidity, centroid, epsilon, approximatedPolygon,
                   numCorners, hypotheses, returned>>

\* The same two calls on the contour listed from another starting point.
MeasureRotated ==
    /\ pc = "sized"
    /\ \E k \in 1..Len(mainContour) : mainContour' = Rotated(mainContour, k)
    /\ area' = calculateContourArea(mainContour')
    /\ perimeter' = calculateContourPerimeter(mainContour')
    /\ pc' = "resized"
    /\ UNCHANGED <<modelResult, input, traced, circularity, convexHull,
                   convexArea, solidity, centroid, epsilon, approximatedPolygon,
                   numCorners, hypotheses, returned>>

NextCyclic ==
    \/ MeasureSize
    \/ MeasureRotated

SpecCyclic == InitGeom /\ [][NextCyclic]_vars

(***************************************************************************)
(* SpecScenario: one call of predict on a canvas that holds a filled disk  *)
(* or a filled triangle, as in the scenarios of the specification.         *)
(***************************************************************************)
ScenarioSize == 100
DiskRadius == 10
TriangleCanvas == 16

\* The mask of a filled disk: the pixels within distance r of the centre.
Disk(cx, cy, r) ==
    {p \in ((cx - r)..(cx + r)) \X ((cy - r)..(cy + r)) :
        (p[1] - cx) * (p[1] - cx) + (p[2] - cy) * (p[2] - cy) <= r * r}

\* The mask of a filled triangle: the pixels on the same side of, or on, all
\* three edges.
FilledTriangle(a, b, c, size) ==
    {p \in (0..(size - 1)) \X (0..(size - 1)) :
        \/ Cross(a, b, p) >= 0 /\ Cross(b, c, p) >= 0 /\ Cross(c, a, p) >= 0
        \/ Cross(a, b, p) <= 0 /\ Cross(b, c, p) <= 0 /\ Cross(c, a, p) <= 0}

DiskScenarios ==
    {[width |-> ScenarioSize, height |-> ScenarioSize,
      binary |-> Disk(ScenarioSize \div 2, ScenarioSize \div 2, r)] :
        r \in DiskRadius..(DiskRadius + 1)}

TriangleScenarios ==
    {[width |-> TriangleCanvas + d, height |-> TriangleCanvas + d,
      binary |-> FilledTriangle(<<8 + d, 3>>, <<12 + d + d, 11 + d>>, <<4, 11 + d>>,
                                TriangleCanvas + d)] :
        d \in 0..1}

InitScenario ==
    /\ pc = "predict"
    /\ model \in {"none", "loaded"}
    /\ data = NoData
    /\ \E s \in DiskScenarios \cup TriangleScenarios :
           width = s.width /\ height = s.height /\ binary = s.binary
    /\ contours = Undefined /\ validContours = Undefined /\ walk = NoWalk
    /\ mainContour = Undefined
    /\ NothingMeasured
    /\ NothingDecided

SpecScenario == InitScenario /\ [][Next]_vars

(***************************************************************************)
(* SpecPair: predict on a canvas with two rectangle outlines side by side, *)
(* far enough apart for their traces to stay separate, of the same or of   *)
(* different sizes, so that findContours returns several contours whose    *)
(* areas lie on both sides of the minimum and can be equal.                *)
(***************************************************************************)
MinRect == 5
RectHeight == 5
PairGap == 6

RectWidths == MinRect..(MinRect + 2)

\* Where the right rectangle begins: beyond the widest left one and the gap.
RightX == 2 + MinRect + 2 + PairGap

PairDrawings ==
    {RectOutline(2, 2, 2 + wl, 2 + RectHeight)
        \cup RectOutline(RightX, 2, RightX + wr, 2 + RectHeight) :
            wl \in RectWidths, wr \in RectWidths}

InitPair ==
    /\ pc = "predict"
    /\ model \in {"none", "loaded"}
    /\ width = RightX + MinRect + 2 + 3 /\ height = RectHeight + 5
    /\ data = NoData
    /\ binary \in PairDrawings
    /\ contours = Undefined /\ validContours = Undefined /\ walk = NoWalk
    /\ mainContour = Undefined
    /\ NothingMeasured
    /\ NothingDecided

SpecPair == InitPair /\ [][Next]_vars

(***************************************************************************)
(* SpecTrace: one call of traceContour, iteration by iteration, on a mask  *)
(* of a few foreground pixels of a small canvas, started as findContours   *)
(* starts its first trace: at the first foreground pixel in row-major      *)
(* order, with nothing visited.  binary is the mask the trace is handed.   *)
(***************************************************************************)
TraceW == 5
TraceH == 3
MaxMaskSize == 4

\* The interior of the canvas: the only pixels the blur writes (lines 287-288).
TracePixels == (1..TraceW) \X (1..TraceH)

\* The masks of 1 to n foreground pixels.
RECURSIVE MasksUpTo(_)
MasksUpTo(n) ==
    IF n = 1 THEN {{p} : p \in TracePixels}
    ELSE LET smaller == MasksUpTo(n - 1)
         IN  smaller \cup {m \cup {p} : m \in smaller, p \in TracePixels}

InitTrace ==
    /\ pc = "tracing"
    /\ model = "none"
    /\ width = TraceW + 2 /\ height = TraceH + 2
    /\ data = NoData
    /\ binary \in MasksUpTo(MaxMaskSize)
    /\ LET s == FirstInScan(StartCandidates(binary, width, height, 0, {}), width)
       IN  walk = TraceStart({}, s[1], s[2])
    /\ contours = <<>> /\ validContours = Undefined
    /\ mainContour = Undefined
    /\ NothingMeasured
    /\ NothingDecided

\* One iteration of the while loop of traceContour, lines 347-403.
TraceIteration ==
    /\ pc = "tracing"
    /\ Len(walk.stack) > 0
    /\ walk' = TraceStep(walk, binary, width, height)
    /\ UNCHANGED <<pc, modelResult, input, contours, validContours, mainContour,
                   features, hypotheses, returned>>

\* The loop ends with the stack empty; findContours keeps the contour if it
\* has more than 2 points (lines 313-316) and its scan goes on to the next
\* foreground pixel that is not visited, where it starts the next trace.
TraceReturn ==
    /\ pc = "tracing"
    /\ Len(walk.stack) = 0
    /\ contours' = IF Len(walk.contour) > 2 THEN Append(contours, walk.contour)
                   ELSE contours
    /\ LET ps == StartCandidates(binary, width, height, 0, walk.visited)
       IN  IF ps = {}
           THEN pc' = "traced" /\ walk' = walk
           ELSE LET s == FirstInScan(ps, width)
                IN  pc' = pc /\ walk' = TraceStart(walk.visited, s[1], s[2])
    /\ UNCHANGED <<modelResult, input, validContours, mainContour,
                   features, hypotheses, returned>>

NextTrace ==
    \/ TraceIteration
    \/ TraceReturn

SpecTrace == InitTrace /\ [][NextTrace]_vars

(***************************************************************************)
(* SpecBinarize: lines 45-64 of detectShape on a pixel buffer of a few     *)
(* pixels, each drawn from colours around the threshold, black and white,  *)
(* at the two sides of the alpha cut.                                      *)
(***************************************************************************)
BufferW == 2

Channels == {0, 10, 255}
Alphas == {alphaOpaque, alphaOpaque + 1}
PixelValues == Channels \X Channels \X Channels \X Alphas

InitBinarize ==
    /\ pc = "binarize"
    /\ model = "none"
    /\ width = BufferW /\ height = 1
    /\ data \in [(0..(BufferW - 1)) \X {0} -> PixelValues]
    /\ binary = {}
    /\ contours = Undefined /\ validContours = Undefined /\ walk = NoWalk
    /\ mainContour = Undefined
    /\ NothingMeasured
    /\ NothingDecided

\* detectShape, lines 45-64.
Threshold ==
    /\ pc = "binarize"
    /\ binary' = Binarize(data)
    /\ pc' = "cv"
    /\ UNCHANGED <<model, width, height, data, modelResult, traced, mainContour,
                   features, hypotheses, returned>>

NextBinarize == Threshold

SpecBinarize == InitBinarize /\ [][NextBinarize]_vars

(***************************************************************************)
(* The properties.  Each restates its thresholds and formulas in its own   *)
(* words, so that it is the code's definitions that are measured.          *)
(***************************************************************************)
\* v clamped to [0, 1].
Clamp01(v) ==
    IF IsNaN(v) THEN NaN
    ELSE IF NumGt(NumOf(0), v) THEN NumOf(0)
    ELSE IF NumGt(v, NumOf(1)) THEN NumOf(1)
    ELSE v

\* The two hypotheses as the specification words them.
CircleHolds == NumGt(circularity, <<3, 5>>)
TriangleHolds == numCorners = 3 /\ NumGt(solidity, <<17, 20>>)

\* The two confidences as the specification words them.
CircleOwnConfidence == Clamp01(NumDiv(NumSub(circularity, <<3, 5>>), <<2, 5>>))
TriangleOwnConfidence == Clamp01(solidity)

\* detectShape has returned.
DetectShapeReturned == result.shape # "none"

\* A traced contour of area greater than 20 exists.
SomeContourOverMinArea ==
    \E i \in 1..Len(contours) : NumGt(calculateContourArea(contours[i]), NumOf(20))

\* C1: when no traced contour has an area greater than 20 (a blank canvas, or
\* only tiny marks), detectShape returns shape "unknown", confidence 0 and the
\* message "No valid contours found", and has evaluated neither hypothesis: no
\* feature and no hypothesis local was assigned.
C1_NoValidContourIsUnknown ==
    (DetectShapeReturned /\ ~SomeContourOverMinArea)
        => /\ result.shape = "unknown"
           /\ result.confidence = NumOf(0)
           /\ result.message = "No valid contours found"
           /\ ~result.hasMetrics
           /\ mainContour = Undefined
           /\ circularity = Undefined /\ solidity = Undefined /\ numCorners = 0
           /\ ~isCircle /\ ~isTriangle

\* C1 witness: detectShape returned for a canvas whose marks were traced into
\* contours, none of which is larger than 20.
C1_Witness ==
    /\ pc = "returned"
    /\ Len(contours) > 0
    /\ ~SomeContourOverMinArea
    /\ result.shape = "unknown"

\* C2: every result whose shape is "unknown" has confidence 0: what
\* detectShape returns, what detectShapeWithCV returns (its catch block
\* included) and what predict resolves to ("Could not detect a shape").
C2_UnknownHasZeroConfidence ==
    /\ result.shape = "unknown" => result.confidence = NumOf(0)
    /\ cvResult.shape = "unknown" => cvResult.confidence = NumOf(0)
    /\ prediction.shape = "unknown"
           => /\ prediction.confidence = NumOf(0)
              /\ prediction.message = "Could not detect a shape"

\* C2 witness: predict resolved to "unknown" from detectShape's early return.
C2_Witness ==
    /\ pc = "done"
    /\ result.shape = "unknown"
    /\ cvResult.shape = "unknown"
    /\ prediction.shape = "unknown"

\* C3: the confidence detectShape returns lies in [0, 1] whatever the
\* circularity and the solidity are, values above 1 included.
C3_ConfidenceInUnitInterval ==
    pc = "returned"
        => /\ NumGe(result.confidence, NumOf(0))
           /\ NumGe(NumOf(1), result.confidence)

\* C3 witness: a result for a circularity above 1 and a solidity above 1.
C3_Witness ==
    /\ pc = "returned"
    /\ NumGt(circularity, NumOf(1))
    /\ NumGt(solidity, NumOf(1))
    /\ IsFinite(result.confidence)

\* C4: isCircle is circularity > 0.6 and isTriangle is cornerCount = 3 with
\* solidity > 0.85; when exactly one of them holds, the result is that shape
\* with its own confidence, clamp01((circularity - 0.6) / 0.4) for the circle
\* and clamp01(solidity) for the triangle, and that confidence is strictly
\* positive.
C4_SingleHypothesisWins ==
    pc = "returned"
        => /\ isCircle = CircleHolds
           /\ isTriangle = TriangleHolds
           /\ (CircleHolds /\ ~TriangleHolds)
                  => /\ result.shape = "circle"
                     /\ result.confidence = CircleOwnConfidence
                     /\ NumGt(result.confidence, NumOf(0))
           /\ (TriangleHolds /\ ~CircleHolds)
                  => /\ result.shape = "triangle"
                     /\ result.confidence = TriangleOwnConfidence
                     /\ NumGt(result.confidence, NumOf(0))

\* C4 witness: a triangle-only result whose solidity lies strictly between
\* 0.85 and 1, so that the confidence is the solidity itself.
C4_Witness ==
    /\ pc = "returned"
    /\ isTriangle /\ ~isCircle
    /\ NumGt(NumOf(1), solidity)
    /\ result.shape = "triangle"

\* C5: when both hypotheses hold, the result is the shape of the higher own
\* confidence and its confidence is the margin |circleConfidence -
\* triangleConfidence|, which is >= 0; circularity 0.61 with 3 corners and
\* solidity 0.9 gives triangle with confidence 0.875.
C5_BothHypothesesMargin ==
    (pc = "returned" /\ CircleHolds /\ TriangleHolds)
        => /\ NumGt(CircleOwnConfidence, TriangleOwnConfidence) => result.shape = "circle"
           /\ NumGt(TriangleOwnConfidence, CircleOwnConfidence) => result.shape = "triangle"
           /\ result.confidence = MathAbs(NumSub(CircleOwnConfidence, TriangleOwnConfidence))
           /\ NumGe(result.confidence, NumOf(0))
           /\ (circularity = <<61, 100>> /\ solidity = <<9, 10>>)
                  => /\ result.shape = "triangle"
                     /\ result.confidence = <<7, 8>>

\* C5 witness: the result for circularity 0.61, 3 corners and solidity 0.9.
C5_Witness ==
    /\ pc = "returned"
    /\ circularity = <<61, 100>> /\ numCorners = 3 /\ solidity = <<9, 10>>
    /\ isCircle /\ isTriangle

\* C6: when neither hypothesis holds the result is "triangle" if the corner
\* count is at most 4 and "circle" otherwise, with confidence 0.5; the result
\* of a surviving contour is never "unknown".
C6_FallbackGuess ==
    pc = "returned"
        => /\ result.shape \in {"circle", "triangle"}
           /\ (~CircleHolds /\ ~TriangleHolds)
                  => /\ result.shape = (IF numCorners <= 4 THEN "triangle" ELSE "circle")
                     /\ result.confidence = <<1, 2>>

\* C6 witness: a fallback "circle": neither hypothesis holds and the polygon
\* has more than 4 corners.
C6_Witness ==
    /\ pc = "returned"
    /\ ~isCircle /\ ~isTriangle
    /\ numCorners > 4
    /\ result.shape = "circle"

IsStrictlyConvexPolygon(c) ==
    /\ Len(c) >= 3
    /\ \/ \A i, j, k \in 1..Len(c) : (i < j /\ j < k) => Cross(c[i], c[j], c[k]) > 0
       \/ \A i, j, k \in 1..Len(c) : (i < j /\ j < k) => Cross(c[i], c[j], c[k]) < 0

\* C10: for a contour that lists the vertices of a strictly convex polygon in
\* boundary order, from any starting vertex and in either orientation, the
\* area of calculateConvexHull's result equals the contour's own Shoelace
\* area, so the solidity is 1.
C10_ConvexPolygonHullArea ==
    (pc \in {"measured", "returned"} /\ IsStrictlyConvexPolygon(validContours[1]))
        => /\ convexArea = area
           /\ solidity = NumOf(1)

\* C10 witness: the features of a convex quadrilateral whose first vertex is
\* not the hull's start point and whose Shoelace sum is negative.
C10_Witness ==
    /\ pc = "measured"
    /\ Len(validContours[1]) = 4
    /\ IsStrictlyConvexPolygon(validContours[1])
    /\ StartIndex(validContours[1]) # 1
    /\ ShoelaceSum(validContours[1]) < 0
    /\ convexArea = area

\* C11: Douglas-Peucker simplification is idempotent: simplifying the polygon
\* approxPolyDP returned, with the same epsilon, returns the same sequence of
\* points.
C11_ApproxPolyDPIdempotent ==
    [][pc = "simplified" => approximatedPolygon' = approximatedPolygon]_vars

\* C11 witness: a polygon that kept an inner point and dropped another has
\* been simplified a second time.
C11_Witness ==
    /\ pc = "resimplified"
    /\ Len(approximatedPolygon) >= 3
    /\ Len(approximatedPolygon) < Len(mainContour)

\* C12: the area and the perimeter do not depend on the point a cyclic
\* contour is listed from: measured again after any cyclic rotation of the
\* point sequence, calculateContourArea returns exactly the same value and
\* calculateContourPerimeter the sum of the same edge lengths; neither is
\* negative.
C12_AreaPerimeterRotationInvariant ==
    [][pc = "sized" => /\ area' = area
                       /\ perimeter' = perimeter
                       /\ NumGe(area', NumOf(0))
                       /\ NumGe(perimeter', NumOf(0))]_vars

\* C12 witness: a contour of positive area has been measured again from
\* another starting point.
C12_Witness ==
    /\ pc = "resized"
    /\ Len(mainContour) >= 3
    /\ mainContour # validContours[1]
    /\ NumGt(area, NumOf(0))

\* The canvas holds one of the filled disks, or one of the filled triangles.
DiskDrawn == \E s \in DiskScenarios : binary = s.binary /\ width = s.width
TriangleDrawn == \E s \in TriangleScenarios : binary = s.binary /\ width = s.width

\* C13: for a filled disk of radius >= 10 on a blank canvas (radius 10
\* centred at (50,50) on a 100x100 canvas), the whole pipeline returns shape
\* "circle" with a confidence greater than 0.
C13_DiskIsCircle ==
    (DiskDrawn /\ DetectShapeReturned)
        => /\ result.shape = "circle"
           /\ NumGt(result.confidence, NumOf(0))

\* C14: for a filled triangle the simplified polygon of the main contour has
\* exactly 3 points and the solidity exceeds 0.85, so the triangle hypothesis
\* holds and the result is "triangle" with a confidence greater than 0.
C14_FilledTriangleIsTriangle ==
    (TriangleDrawn /\ DetectShapeReturned)
        => /\ numCorners = 3
           /\ NumGt(solidity, <<17, 20>>)
           /\ isTriangle
           /\ result.shape = "triangle"
           /\ NumGt(result.confidence, NumOf(0))


(***************************************************************************)
(* The walk of traceContour (SpecTrace).                                   *)
(***************************************************************************)
\* The pixel the running trace is at: the last one appended to the contour.
Current == walk.contour[Len(walk.contour)]

Appended == walk'.contour[Len(walk'.contour)]

\* Pixel n is foreground and not yet visited.
Unvisited(n) == n \in binary /\ n \notin walk.visited

Neighbours(p) == {n \in ((p[1] - 1)..(p[1] + 1)) \X ((p[2] - 1)..(p[2] + 1)) : n # p}

\* Neighbour m comes before neighbour n in the order NW, N, NE, W, E, SW, S, SE:
\* the row above first, each row from left to right.
Before(m, n) == m[2] < n[2] \/ (m[2] = n[2] /\ m[1] < n[1])

HasUnvisitedNeighbour == \E n \in Neighbours(Current) : Unvisited(n)

\* Chebyshev distance of n from p is at most r.
Within(p, n, r) ==
    /\ n[1] >= p[1] - r /\ n[1] <= p[1] + r
    /\ n[2] >= p[2] - r /\ n[2] <= p[2] + r

\* C15: at every iteration of a trace the stack holds exactly the pixel
\* appended last; if that pixel has an unvisited foreground 8-neighbour, the
\* point appended is the first such neighbour in the order NW, N, NE, W, E,
\* SW, S, SE, it was not in the contour before, and afterwards the stack holds
\* that pixel alone.
C15_FirstFreeNeighbourSingleBranch ==
    [][(pc = "tracing" /\ Len(walk.stack) > 0 /\ pc' = "tracing") =>
          /\ walk.stack = <<Current>>
          /\ Len(walk'.stack) <= 1
          /\ HasUnvisitedNeighbour =>
                /\ Len(walk'.contour) = Len(walk.contour) + 1
                /\ Appended \in Neighbours(Current) /\ Unvisited(Appended)
                /\ \A m \in Neighbours(Current) : Before(m, Appended) => ~Unvisited(m)
                /\ \A i \in 1..Len(walk.contour) : walk.contour[i] # Appended
                /\ walk'.stack = <<Appended>>]_vars

\* A trace has turned a corner: it has appended a neighbour although a later
\* neighbour in the order was unvisited too, and the stack holds one pixel.
C15_Witness ==
    /\ pc = "tracing"
    /\ Len(walk.contour) >= 3
    /\ walk.stack = <<Current>>
    /\ \E n \in Neighbours(walk.contour[2]) :
          /\ Before(walk.contour[3], n)
          /\ n \in binary /\ n \notin {walk.contour[i] : i \in 1..3}

\* C16: at every iteration at which the current pixel has no unvisited
\* foreground 8-neighbour, the trace jumps to an unvisited foreground pixel
\* within radius 3 if there is one, to one within radius 2 if there is one,
\* and ends (the stack empties, nothing is appended) only if there is none.
C16_JumpWheneverStuck ==
    [][(pc = "tracing" /\ Len(walk.stack) > 0 /\ ~HasUnvisitedNeighbour) =>
          IF \E n \in binary : Unvisited(n) /\ Within(Current, n, 3)
          THEN /\ Len(walk'.contour) = Len(walk.contour) + 1
               /\ Unvisited(Appended) /\ Within(Current, Appended, 3)
               /\ (\E n \in binary : Unvisited(n) /\ Within(Current, n, 2))
                     => Within(Current, Appended, 2)
               /\ walk'.stack = <<Appended>>
          ELSE walk'.stack = <<>> /\ walk'.contour = walk.contour]_vars

\* The same for a trace that has already left its start pixel.
JumpAfterFirstStep ==
    [][(pc = "tracing" /\ Len(walk.stack) > 0 /\ ~HasUnvisitedNeighbour
          /\ Len(walk.contour) > 1) =>
          IF \E n \in binary : Unvisited(n) /\ Within(Current, n, 3)
          THEN /\ Len(walk'.contour) = Len(walk.contour) + 1
               /\ Unvisited(Appended) /\ Within(Current, Appended, 3)
               /\ (\E n \in binary : Unvisited(n) /\ Within(Current, n, 2))
                     => Within(Current, Appended, 2)
               /\ walk'.stack = <<Appended>>
          ELSE walk'.stack = <<>> /\ walk'.contour = walk.contour]_vars

\* A trace has jumped: two consecutive contour points are not neighbours.
Jumped ==
    \E i \in 1..(Len(walk.contour) - 1) :
        walk.contour[i + 1] \notin Neighbours(walk.contour[i])

\* A trace has ended at its start pixel next to a foreground pixel at radius 2.
StuckAtStart ==
    /\ Len(walk.contour) = 1 /\ walk.stack = <<>>
    /\ \E n \in binary : n \notin walk.visited /\ Within(walk.contour[1], n, 2)


(***************************************************************************)
(* The convex hull (SpecGeom, Spec).                                       *)
(***************************************************************************)
\* The points of a sequence.
PointsOf(c) == {c[i] : i \in 1..Len(c)}

\* The lowest point of a contour, the leftmost of the lowest if tied.
Anchor(c) == CHOOSE p \in PointsOf(c) : \A q \in PointsOf(c) : ~LowerLeft(q, p)

AllCollinear(c) == \A p, q, r \in PointsOf(c) : Cross(p, q, r) = 0

\* The point i places after position k of the closed polygon h.
Cyc(h, k, i) == h[((k + i - 1) % Len(h)) + 1]

\* The contour handed to calculateConvexHull; the swap of line 491 changes
\* the order of its points at most.
GivenContour == mainContour

\* calculateConvexHull has returned.
HullComputed == Len(convexHull) > 0

\* C17: for a contour of at least 3 points that are not all collinear, the
\* hull starts with the anchor (smallest y, then smallest x), holds only
\* points of the contour, and every three cyclically consecutive hull points
\* make a counter-clockwise turn.
C17_HullIsConvexCCW ==
    (HullComputed /\ Len(GivenContour) >= 3 /\ ~AllCollinear(GivenContour))
        => /\ convexHull[1] = Anchor(GivenContour)
           /\ PointsOf(convexHull) \subseteq PointsOf(GivenContour)
           /\ Len(convexHull) >= 3
           /\ \A k \in 1..Len(convexHull) :
                 isCounterClockwise(Cyc(convexHull, k, 0), Cyc(convexHull, k, 1),
                                    Cyc(convexHull, k, 2))

\* The first two parts of C17 alone.
HullStartsAtAnchorWithinContour ==
    (HullComputed /\ Len(GivenContour) >= 3 /\ ~AllCollinear(GivenContour))
        => /\ convexHull[1] = Anchor(GivenContour)
           /\ PointsOf(convexHull) \subseteq PointsOf(GivenContour)

C19_ContourStartsAtAnchor ==
    /\ \A i \in 1..Len(contours) : contours[i][1] = Anchor(contours[i])
    /\ (pc \in {"selected", "measured"}) =>
          /\ StartIndex(mainContour) = 1
          /\ SwapStart(mainContour) = mainContour

\* C19 witness: findContours has returned two contours, the second traced
\* with pixels of the first already visited, and the hull of the main contour
\* has been computed.
C19_Witness ==
    /\ pc = "measured"
    /\ Len(contours) >= 2
    /\ Len(mainContour) >= 3
    /\ convexHull[1] = mainContour[1]


\* C20: for a contour whose Shoelace area is not zero, the hull has at least
\* 3 points and a strictly positive area, and the solidity area / hullArea is
\* a finite positive number.
C20_HullOfSolidContourHasArea ==
    (HullComputed /\ ~IsZero(area))
        => /\ Len(convexHull) >= 3
           /\ NumGt(convexArea, NumOf(0))
           /\ IsFinite(solidity)
           /\ NumGt(solidity, NumOf(0))

\* C20 witness: a contour of non-zero area whose hull has lost a point of the
\* contour, so that the hull is smaller than the contour's own area.
C20_Witness ==
    /\ HullComputed
    /\ ~IsZero(area)
    /\ Len(convexHull) >= 3
    /\ PointsOf(convexHull) # PointsOf(GivenContour)
    /\ NumGt(solidity, NumOf(1))


(***************************************************************************)
(* approxPolyDP: call depth and shape of the result (SpecApprox).          *)
(***************************************************************************)
\* A depth at which a guarded simplification would stop descending.
DepthGuard == 2

Simplified == pc \in {"simplified", "resimplified"}

CallDepthWithinLength ==
    Simplified =>
        approxPolyDPDepth(mainContour, epsilon)
            <= (IF Len(mainContour) <= 2 THEN 1 ELSE Len(mainContour) - 1)

\* A contour that needs a frame for each of its points but the first.
DepthReachesLength ==
    /\ Simplified
    /\ Len(mainContour) = MaxContourLen
    /\ approxPolyDPDepth(mainContour, epsilon) = Len(mainContour) - 1


\* s can be had from c by leaving points out.
RECURSIVE IsSubsequence(_, _)
IsSubsequence(s, c) ==
    IF Len(s) = 0 THEN TRUE
    ELSE IF Len(c) = 0 THEN FALSE
    ELSE IF Head(s) = Head(c) THEN IsSubsequence(Tail(s), Tail(c))
    ELSE IsSubsequence(s, Tail(c))

NoPointTwice(s) == \A i, j \in 1..Len(s) : i # j => s[i] # s[j]

\* C22: for a contour of at least 2 points and epsilon >= 0 the simplified
\* polygon is a subsequence of the contour that begins with its first point
\* and ends with its last, no point appears in it twice, it has at least 2
\* points, and a contour of at most 2 points is returned as it is.
C22_SimplifiedIsSubsequence ==
    (Len(approximatedPolygon) > 0 /\ Len(mainContour) >= 2)
        => /\ IsSubsequence(approximatedPolygon, mainContour)
           /\ approximatedPolygon[1] = mainContour[1]
           /\ approximatedPolygon[Len(approximatedPolygon)] = mainContour[Len(mainContour)]
           /\ NoPointTwice(approximatedPolygon)
           /\ Len(approximatedPolygon) >= 2
           /\ Len(mainContour) <= 2 => approximatedPolygon = mainContour

\* C22 witness: a contour of 4 points was split once, at its third point, and
\* its second point was left out.
C22_Witness ==
    /\ pc = "simplified"
    /\ Len(mainContour) = 4
    /\ approximatedPolygon = <<mainContour[1], mainContour[3], mainContour[4]>>


(***************************************************************************)
(* Termination and output of findContours (SpecTrace, SpecTraceFair).      *)
(***************************************************************************)
\* The step marks exactly one pixel that was not visited and appends it.
MarksOne ==
    \E n \in binary :
        /\ n \notin walk.visited
        /\ walk'.visited = walk.visited \cup {n}
        /\ walk'.contour[Len(walk'.contour)] = n

\* An iteration of the trace loop appends and marks one unvisited pixel, or
\* marks nothing and leaves the stack empty; the scan starts a trace only at
\* an unvisited pixel, which it marks.
TraceProgress ==
    /\ (pc = "tracing" /\ Len(walk.stack) > 0) =>
          \/ MarksOne /\ Len(walk'.contour) = Len(walk.contour) + 1
          \/ /\ walk'.visited = walk.visited /\ walk'.contour = walk.contour
             /\ walk'.stack = <<>>
    /\ (pc = "tracing" /\ Len(walk.stack) = 0) =>
          \/ MarksOne /\ Len(walk'.contour) = 1
          \/ pc' = "traced" /\ walk' = walk

\* What is left to do: two for every foreground pixel still unvisited, one
\* for a trace that is running, one for a scan that has not returned.
WorkLeft ==
    2 * Cardinality((binary \cap Interior(width, height)) \ walk.visited)
      + (IF Len(walk.stack) > 0 THEN 1 ELSE 0)
      + (IF pc = "tracing" THEN 1 ELSE 0)

\* C23: every iteration of a trace marks one unvisited pixel or ends the
\* trace, and every step of findContours leaves less to do, so every trace
\* and the scan end; the pixels appended (the visited ones) are foreground
\* interior pixels, at most (width - 2) * (height - 2) over all traces.
C23_TracesTerminate ==
    /\ [][TraceProgress /\ WorkLeft' < WorkLeft]_vars
    /\ [](/\ walk.visited \subseteq binary \cap Interior(width, height)
          /\ Cardinality(walk.visited) <= (width - 2) * (height - 2)
          /\ WorkLeft >= 0
          /\ WorkLeft = 0 <=> pc = "traced")

\* C23 witness: findContours has returned after several traces that visited
\* every foreground pixel of a mask of the largest size.
C23_Witness ==
    /\ pc = "traced"
    /\ Cardinality(binary) = MaxMaskSize
    /\ walk.visited = binary
    /\ Len(walk.contour) < MaxMaskSize


\* C24: every point of every contour findContours returned is an interior
\* pixel that is foreground in the blurred mask, no pixel occurs twice in a
\* contour, and no pixel occurs in two contours.
C24_ContoursDisjointForeground ==
    /\ \A i \in 1..Len(contours) :
          /\ PointsOf(contours[i]) \subseteq
                Blur(binary, width, height) \cap Interior(width, height)
          /\ NoPointTwice(contours[i])
    /\ \A i, j \in 1..Len(contours) :
          i # j => PointsOf(contours[i]) \cap PointsOf(contours[j]) = {}

\* C24 witness: findContours returned two contours, and the second one came
\* next to pixels the first had visited.
C24_Witness ==
    /\ Len(contours) >= 2
    /\ \E p \in PointsOf(contours[1]), q \in PointsOf(contours[2]) : q \in Neighbours(p)

\* The same for the traces of SpecTrace, whose mask is the one in binary.
TracedDisjointForeground ==
    /\ \A i \in 1..Len(contours) :
          /\ PointsOf(contours[i]) \subseteq binary \cap Interior(width, height)
          /\ NoPointTwice(contours[i])
    /\ \A i, j \in 1..Len(contours) :
          i # j => PointsOf(contours[i]) \cap PointsOf(contours[j]) = {}
    /\ NoPointTwice(walk.contour)
    /\ pc = "tracing" =>
          \A i \in 1..Len(contours) : PointsOf(contours[i]) \cap PointsOf(walk.contour) = {}


(***************************************************************************)
(* The blur of findContours (Spec).                                        *)
(***************************************************************************)
\* The cells of the 3x3 neighbourhood of p, p included, that are foreground
\* in the thresholded mask.
ForegroundCells(p) ==
    {q \in binary : q[1] >= p[1] - 1 /\ q[1] <= p[1] + 1
                      /\ q[2] >= p[2] - 1 /\ q[2] <= p[2] + 1}

Canvas == (0..(width - 1)) \X (0..(height - 1))

OnBorder(p) == p[1] = 0 \/ p[2] = 0 \/ p[1] = width - 1 \/ p[2] = height - 1

FindContoursCalled == pc \notin {"predict", "cv"}

\* C25: in the blurred mask findContours traces, an interior pixel is
\* foreground exactly if at least 2 of the 9 cells of its neighbourhood are
\* foreground in the thresholded mask, whatever the pixel itself is, and
\* every border pixel is background.
C25_BlurNeedsTwoCells ==
    FindContoursCalled =>
        \A p \in Canvas :
            p \in Blur(binary, width, height)
                <=> (~OnBorder(p) /\ Cardinality(ForegroundCells(p)) >= 2)

\* C25 witness: a contour was traced through a pixel that the blur turned on
\* (background in the thresholded mask) while a foreground pixel of the
\* border was turned off.
C25_Witness ==
    /\ pc = "traced"
    /\ \E i \in 1..Len(contours) : \E p \in PointsOf(contours[i]) : p \notin binary
    /\ \E p \in binary : OnBorder(p) /\ Cardinality(ForegroundCells(p)) >= 2


(***************************************************************************)
(* The binarizer (SpecBinarize).                                           *)
(***************************************************************************)
\* C26: a pixel is foreground in the thresholded mask exactly if its
\* luminance, (0.299 R + 0.587 G + 0.114 B) times 1.5 if alpha > 200,
\* clamped to 255, is greater than the threshold 5.
C26_ForegroundIffLuminanceOverThreshold ==
    pc = "cv" =>
        \A p \in DOMAIN data :
            p \in binary
                <=> NumGt(MathMin(NumOf(255),
                                  NumMul(Norm(299 * data[p][1] + 587 * data[p][2]
                                                + 114 * data[p][3], 1000),
                                         IF data[p][4] > 200 THEN Norm(3, 2) ELSE NumOf(1))),
                          NumOf(5))

\* What the code does: the luminance loses its fraction in the gray array, so
\* a pixel is foreground exactly if its luminance is at least 6.
ForegroundIffLuminanceAtLeastSix ==
    pc = "cv" =>
        \A p \in DOMAIN data :
            p \in binary <=> NumGe(Luminance(data[p]), NumOf(thresholdValue + 1))

\* A pixel of luminance between 5 and 6 was thresholded to background.
DimPixelDropped ==
    /\ pc = "cv"
    /\ \E p \in DOMAIN data :
          /\ NumGt(Luminance(data[p]), NumOf(5))
          /\ NumGt(NumOf(6), Luminance(data[p]))
          /\ p \notin binary


(***************************************************************************)
(* The scan of findContours (SpecTrace).                                   *)
(***************************************************************************)
\* The interior foreground pixels no trace has visited.
Untraced == {p \in binary \cap Interior(width, height) : p \notin walk.visited}

\* What the scan does when a trace has ended: it keeps the trace if it has
\* more than 2 points, after the contours kept before, and starts the next
\* trace at the first untraced pixel in row-major order, or returns if
\* there is none.
ScanKeepsAndRestarts ==
    (pc = "tracing" /\ Len(walk.stack) = 0) =>
        /\ contours' = IF Len(walk.contour) > 2 THEN contours \o <<walk.contour>>
                       ELSE contours
        /\ IF Untraced = {}
           THEN pc' = "traced"
           ELSE /\ pc' = "tracing"
                /\ Len(walk'.contour) = 1
                /\ walk'.contour[1] \in Untraced
                /\ \A q \in Untraced : ~LowerLeft(q, walk'.contour[1])

\* The contours kept have more than 2 points each and stand in the order in
\* which the scan met their start pixels.
ContoursInScanOrder ==
    /\ \A i \in 1..Len(contours) : Len(contours[i]) > 2
    /\ \A i, j \in 1..Len(contours) :
          i < j => LowerLeft(contours[i][1], contours[j][1])

MainContourChosen == pc \in {"selected", "measured"}

\* C28: the main contour is one of the traced contours, its Shoelace area is
\* greater than 20, no traced contour has a greater area, and every contour
\* traced before it has a smaller one.
C28_MainContourIsFirstLargest ==
    MainContourChosen =>
        \E k \in 1..Len(contours) :
            /\ mainContour = contours[k]
            /\ NumGt(calculateContourArea(contours[k]), NumOf(20))
            /\ \A j \in 1..Len(contours) :
                  NumGe(calculateContourArea(contours[k]), calculateContourArea(contours[j]))
            /\ \A j \in 1..(k - 1) :
                  NumGt(calculateContourArea(contours[k]), calculateContourArea(contours[j]))

\* C28 witness: two traced contours share the largest area, which is over
\* the minimum, and the main contour is the one traced first.
C28_Witness ==
    /\ pc = "selected"
    /\ \E i, j \in 1..Len(contours) :
          /\ i < j
          /\ calculateContourArea(contours[i]) = calculateContourArea(contours[j])
          /\ NumGt(calculateContourArea(contours[i]), NumOf(20))
          /\ mainContour = contours[i]

\* The main contour was traced after a contour that the filter dropped.
SecondContourChosen ==
    /\ pc = "selected"
    /\ Len(contours) >= 2
    /\ mainContour = contours[2]
    /\ ~NumGt(calculateContourArea(contours[1]), NumOf(20))


(***************************************************************************)
(* The tie of the two hypotheses (SpecClassify).                           *)
(***************************************************************************)
\* C29: when both hypotheses hold, the result is a circle exactly if
\* circleConfidence is strictly greater than triangleConfidence; with equal
\* confidences the result is triangle with confidence 0, a labelled result
\* of zero confidence.
C29_TieGoesToTriangleAtZero ==
    (pc = "returned" /\ isCircle /\ isTriangle)
        => /\ result.shape = "circle" <=> NumGt(circleConfidence, triangleConfidence)
           /\ circleConfidence = triangleConfidence
                 => /\ result.shape = "triangle"
                    /\ result.confidence = NumOf(0)
                    /\ result.shape # "unknown"

\* C29 witness: both hypotheses held with confidence 1 each, and detectShape
\* returned triangle with confidence 0.
C29_Witness ==
    /\ pc = "returned"
    /\ isCircle /\ isTriangle
    /\ circleConfidence = NumOf(1) /\ triangleConfidence = NumOf(1)
    /\ result.shape = "triangle" /\ result.confidence = NumOf(0)


(***************************************************************************)
(* predict (Spec).                                                         *)
(***************************************************************************)
\* model.predict (or the tensor code round it) threw, or no model is loaded.
ModelFailedOrAbsent == modelResult.status # "ok"

\* detectShape threw inside detectShapeWithCV: it never returned a result.
DetectShapeThrew == pc \in {"cvdone", "done"} /\ result = NoResult

\* C30: predict always resolves.  If the model's prediction succeeded, the
\* label and the confidence are the model's, with source 'model', whatever
\* the CV detector did.  If no model is loaded or its prediction threw, the
\* result is the CV detector's, with source 'cv', when its shape is not
\* unknown, and shape unknown with confidence 0 otherwise, which includes a
\* CV detector that threw.  An exception of detectShape is caught, and a
\* returned or caught CV result always lets predict return.
C30_PredictNeverRejects ==
    /\ pc = "threw" => ENABLED CVCatch
    /\ pc = "returned" => ENABLED CVReturn
    /\ pc = "cvdone" => ENABLED PredictReturn
    /\ pc \in {"predict", "cv", "traced", "selected", "measured", "returned",
               "threw", "cvdone", "done"}
    /\ pc = "done" =>
          /\ prediction.shape \in {"circle", "triangle", "unknown"}
          /\ ~ModelFailedOrAbsent =>
                /\ prediction.shape = modelResult.shape
                /\ prediction.confidence = modelResult.confidence
                /\ prediction.source = "model"
          /\ (ModelFailedOrAbsent /\ cvResult.shape # "unknown") =>
                /\ prediction.shape = cvResult.shape
                /\ prediction.confidence = cvResult.confidence
                /\ prediction.source = "cv"
          /\ (ModelFailedOrAbsent /\ cvResult.shape = "unknown") =>
                /\ prediction.shape = "unknown"
                /\ prediction.confidence = NumOf(0)
          /\ (ModelFailedOrAbsent /\ DetectShapeThrew) =>
                /\ prediction.shape = "unknown"
                /\ prediction.confidence = NumOf(0)

\* C30 witness: the model's prediction threw, detectShape threw as well, and
\* predict resolved to unknown with confidence 0.
C30_Witness ==
    /\ pc = "done"
    /\ model = "loaded" /\ modelResult.status = "throws"
    /\ DetectShapeThrew
    /\ prediction.shape = "unknown" /\ prediction.confidence = NumOf(0)

\* The model's prediction succeeded while detectShape threw, and predict
\* resolved to the model's label.
ModelAnswersWhenCVThrows ==
    /\ pc = "done"
    /\ modelResult.status = "ok"
    /\ DetectShapeThrew
    /\ prediction.source = "model" /\ prediction.shape = modelResult.shape

=============================================================================
